---- MODULE Spec2Model ----
(***************************************************************************)
(* Model of the in-memory TTL cache (class Cache, src/utils/cache.js).     *)
(*                                                                         *)
(* A Cache holds two JavaScript Maps, `cache` (key -> value) and           *)
(* `timestamps` (key -> expiry instant).  A JavaScript Map iterates in     *)
(* insertion order, Map.set on a key that is present replaces the value    *)
(* in place, and Map.delete of an absent key does nothing: `cache` is      *)
(* therefore a sequence of [key, value] records without duplicate keys.    *)
(* `timestamps` is never iterated, so it is a function on the stored keys. *)
(* Date.now() is the variable `now`; it only moves in the action Tick.     *)
(*                                                                         *)
(* The second half models the error handler (src/utils/errorHandler.js):   *)
(* handleApiError, its retry bookkeeping in the Map `retryCounts`, and the *)
(* one suspension point of a call, the await of the retry delay.           *)
(***************************************************************************)
EXTENDS Integers, Sequences, FiniteSets, TLC

\* ---- bounds and input sets ------------------------------------------------
MaxTime == 3

Keys == {"k1", "k2", "k3"}
Values == {"v1", "v2"}
\* the values tried for a key: both on one key, so that an overwrite can change
\* the value, one on the others
ValuesFor(k) == IF k = "k1" THEN Values ELSE {"v1"}
undefined == "undefined"
\* an optional numeric argument: <<>> when omitted, <<n>> when n is passed
NoArg == <<>>
TTLArgs == {NoArg, <<0>>, <<1>>, <<-1>>}
\* the constructor calls tried: new Cache({maxSize: m, defaultTTL: d})
OptionsTried == {[maxSize |-> 0, defaultTTL |-> 2], [maxSize |-> 1, defaultTTL |-> 2],
                 [maxSize |-> 2, defaultTTL |-> 2], [maxSize |-> 1, defaultTTL |-> 0]}

\* ---- program constants ----------------------------------------------------
DEFAULT_MAX_SIZE == 1000
DEFAULT_TTL == 300000

VARIABLES
    options,     \* the options object the constructor was called with
    maxSize,     \* this.maxSize
    defaultTTL,  \* this.defaultTTL
    cache,       \* this.cache, in Map iteration order
    timestamps,  \* this.timestamps
    now,         \* Date.now()
    older,       \* history: <<a, b>> when stored key a was inserted before stored key b
    last,        \* history: the call made last, its arguments and its result
    retryCounts, \* errorHandler.js: the module-level Map retryCounts
    calls,       \* the handleApiError call each caller has in flight
    hlast,       \* history: the error-handler event that happened last
    streak,      \* history: the run of consecutive failures with one code
    plast        \* history: the call of an error utility made last

vars == <<options, maxSize, defaultTTL, cache, timestamps, now, older, last,
          retryCounts, calls, hlast, streak, plast>>
\* the variables of the error handler, which no Cache method touches
hvars == <<retryCounts, calls, hlast, streak, plast>>
\* the variables of the Cache, which the error handler never touches
cvars == <<options, maxSize, defaultTTL, cache, timestamps, now, older, last>>

\* ---- JavaScript helpers ---------------------------------------------------
\* x || d for an optional number x: undefined and 0 are falsy
OrDefault(x, d) == IF x = NoArg \/ x[1] = 0 THEN d ELSE x[1]

MapKeys(m) == {m[i].key : i \in 1..Len(m)}
MapHas(m, k) == k \in MapKeys(m)
MapGet(m, k) == IF MapHas(m, k)
                THEN (CHOOSE e \in {m[i] : i \in 1..Len(m)} : e.key = k).value
                ELSE undefined
MapDelete(m, k) == SelectSeq(m, LAMBDA e : e.key # k)

\* a mutant of MapSet: an overwrite moves the key to the end
MapSetMoveToEnd(m, k, v) == Append(MapDelete(m, k), [key |-> k, value |-> v])
MapSet(m, k, v) ==
    IF MapHas(m, k)
    THEN [i \in 1..Len(m) |-> IF m[i].key = k THEN [key |-> k, value |-> v] ELSE m[i]]
    ELSE Append(m, [key |-> k, value |-> v])

\* a mutant of FirstKey: the newest key
LastKey(m) == IF Len(m) = 0 THEN undefined ELSE m[Len(m)].key
\* this.cache.keys().next().value
FirstKey(m) == IF Len(m) = 0 THEN undefined ELSE m[1].key

\* ---- Cache ----------------------------------------------------------------
\* a mutant of Expired: an entry expires at its expiry instant
ExpiredAtInstant(ts, t) == ts # 0 /\ t >= ts
\* timestamp && Date.now() > timestamp
Expired(ts, t) == ts # 0 /\ t > ts

\* a mutant of IsFull: off by one
IsOverFull(m, cap) == Len(m) > cap
\* this.cache.size >= this.maxSize
IsFull(m, cap) == Len(m) >= cap

\* a mutant of Expiry: a ttl of 0 taken as given
ExpiryZeroKept(t, ttl, dttl) == t + (IF ttl = NoArg THEN dttl ELSE ttl[1])
\* a mutant of Expiry: the hard-wired default instead of this.defaultTTL
ExpiryFixedDefault(t, ttl, dttl) == t + OrDefault(ttl, DEFAULT_TTL)
\* a mutant of Expiry: the duration alone, Date.now() forgotten
ExpiryNoClock(t, ttl, dttl) == OrDefault(ttl, dttl)
\* Date.now() + (ttl || this.defaultTTL)
Expiry(t, ttl, dttl) == t + OrDefault(ttl, dttl)

\* the Map `cache` after set(k, v): evict the first key when full, then Map.set
Evicted(m, cap) == IF IsFull(m, cap) THEN MapDelete(m, FirstKey(m)) ELSE m
SetCache(m, cap, k, v) == MapSet(Evicted(m, cap), k, v)
\* the Map `timestamps` after set(k, v, ttl) at time t
SetTimestamps(m, ts, cap, k, t, ttl, dttl) ==
    LET kept == MapKeys(Evicted(m, cap))
    IN  [x \in kept \cup {k} |-> IF x = k THEN Expiry(t, ttl, dttl) ELSE ts[x]]
\* both Maps after set(k, v, ttl) at time t
SetState(m, ts, cap, k, v, t, ttl, dttl) ==
    [cache |-> SetCache(m, cap, k, v),
     timestamps |-> SetTimestamps(m, ts, cap, k, t, ttl, dttl)]

\* a mutant of Size: entries past their expiry are not counted
SizeLiveOnly(m) == Cardinality({i \in 1..Len(m) : ~Expired(timestamps[m[i].key], now)})
\* the value of size(), and of stats()
Size(m) == Len(m)
Stats(m, cap, dttl) == [size |-> Size(m), maxSize |-> cap, defaultTTL |-> dttl]

\* ---- history -------------------------------------------------------------
\* the insertion-order relation after key x leaves the store
OlderDelete(rel, x) == {p \in rel : p[1] # x /\ p[2] # x}
\* the insertion-order relation after set(k) on a store holding `stored`: a
\* key that was not stored is inserted now, after every key stored
OlderInsert(rel, stored, k) ==
    IF k \in stored THEN rel ELSE rel \cup {<<a, k>> : a \in stored}

NoCall == [op |-> "new", key |-> undefined, value |-> undefined, ttl |-> NoArg,
           ret |-> undefined, bool |-> FALSE, num |-> 0,
           had |-> FALSE, evicted |-> undefined,
           afterSet |-> FALSE, setValue |-> undefined, setTtl |-> NoArg]

\* ---- error classes, safe messages and the code catalog ---------------------
\* the classes of errors.js, and Error for every error that is no FCAError
ErrorClasses == {"FCAError", "AuthenticationError", "NetworkError", "ValidationError",
                 "ConfigurationError", "SecurityError", "DatabaseError", "Error"}
\* variant: DatabaseError constructed with the code of NetworkError
ClassCodeShared ==
    ("AuthenticationError" :> "AUTH_ERROR") @@ ("NetworkError" :> "NETWORK_ERROR")
      @@ ("ValidationError" :> "VALIDATION_ERROR") @@ ("ConfigurationError" :> "CONFIG_ERROR")
      @@ ("SecurityError" :> "SECURITY_ERROR") @@ ("DatabaseError" :> "NETWORK_ERROR")
\* the code each subclass passes to the FCAError constructor
ClassCode ==
    ("AuthenticationError" :> "AUTH_ERROR") @@ ("NetworkError" :> "NETWORK_ERROR")
      @@ ("ValidationError" :> "VALIDATION_ERROR") @@ ("ConfigurationError" :> "CONFIG_ERROR")
      @@ ("SecurityError" :> "SECURITY_ERROR") @@ ("DatabaseError" :> "DATABASE_ERROR")
\* details = {}
EmptyDetails == [tag |-> "{}", originalError |-> <<>>, retryAttempt |-> 0]
\* new FCAError(message, code, details) at time t
NewFCAError(message, code, details, t) ==
    [class |-> "FCAError", code |-> code, message |-> message, details |-> details,
     timestamp |-> <<t>>]
\* new <class>(message, details) at time t, for a subclass of FCAError
NewClassError(class, message, details, t) ==
    [NewFCAError(message, ClassCode[class], details, t) EXCEPT !.class = class]
\* new Error(message), given the code `code` afterwards; no details, no timestamp
NewError(message, code) ==
    [class |-> "Error", code |-> code, message |-> message,
     details |-> [EmptyDetails EXCEPT !.tag = undefined], timestamp |-> <<>>]
\* error instanceof FCAError, error instanceof SecurityError
IsFCAError(e) == e.class # "Error"
IsSecurityError(e) == e.class = "SecurityError"

SECURITY_SAFE_MESSAGE ==
    "A security error occurred. Please check your credentials and try again."
UNEXPECTED_SAFE_MESSAGE == "An unexpected error occurred. Please try again later."
UNKNOWN_MESSAGE == "An unknown error occurred"

\* variant: the message of every error but a SecurityError shown
GetSafeErrorMessageShowsUnknown(e) ==
    IF IsSecurityError(e) THEN SECURITY_SAFE_MESSAGE ELSE e.message
\* variant: the message of every FCAError shown
GetSafeErrorMessageNoSecurityCase(e) ==
    IF IsFCAError(e) THEN e.message ELSE UNEXPECTED_SAFE_MESSAGE
\* ErrorHandler.getSafeErrorMessage(error)
GetSafeErrorMessage(e) ==
    IF IsFCAError(e)
    THEN IF IsSecurityError(e) THEN SECURITY_SAFE_MESSAGE ELSE e.message
    ELSE UNEXPECTED_SAFE_MESSAGE

\* ERROR_CODES
ERROR_CODES ==
    ("AUTH_LOGIN_FAILED" :> "ERR_AUTH_01") @@ ("AUTH_CHECKPOINT" :> "ERR_AUTH_02")
      @@ ("AUTH_2FA_REQUIRED" :> "ERR_AUTH_03") @@ ("AUTH_SESSION_EXPIRED" :> "ERR_AUTH_04")
      @@ ("AUTH_CREDENTIALS_INVALID" :> "ERR_AUTH_05")
      @@ ("NETWORK_TIMEOUT" :> "ERR_NETWORK_01")
      @@ ("NETWORK_CONNECTION_FAILED" :> "ERR_NETWORK_02")
      @@ ("NETWORK_REQUEST_FAILED" :> "ERR_NETWORK_03")
      @@ ("NETWORK_PARSE_FAILED" :> "ERR_NETWORK_04")
      @@ ("NETWORK_RATE_LIMITED" :> "ERR_NETWORK_05")
      @@ ("VALIDATION_MISSING_PARAM" :> "ERR_VALIDATION_01")
      @@ ("VALIDATION_INVALID_FORMAT" :> "ERR_VALIDATION_02")
      @@ ("VALIDATION_OUT_OF_RANGE" :> "ERR_VALIDATION_03")
      @@ ("CONFIG_MISSING" :> "ERR_CONFIG_01") @@ ("CONFIG_INVALID" :> "ERR_CONFIG_02")
      @@ ("CONFIG_FILE_NOT_FOUND" :> "ERR_CONFIG_03")
      @@ ("SECURITY_ENCRYPTION_FAILED" :> "ERR_SECURITY_01")
      @@ ("SECURITY_DECRYPTION_FAILED" :> "ERR_SECURITY_02")
      @@ ("SECURITY_VALIDATION_FAILED" :> "ERR_SECURITY_03")
      @@ ("SECURITY_PERMISSION_DENIED" :> "ERR_SECURITY_04")
      @@ ("DATABASE_CONNECTION_FAILED" :> "ERR_DATABASE_01")
      @@ ("DATABASE_QUERY_FAILED" :> "ERR_DATABASE_02")
      @@ ("DATABASE_RECORD_NOT_FOUND" :> "ERR_DATABASE_03")
      @@ ("UNKNOWN_ERROR" :> "ERR_GENERAL_01") @@ ("NOT_IMPLEMENTED" :> "ERR_GENERAL_02")
      @@ ("OPERATION_CANCELLED" :> "ERR_GENERAL_03")
\* ERROR_CODES and RETRY_CONFIG are object literals: a lookup also finds what
\* every object inherits from Object.prototype
ObjectPrototypeNames == {"constructor", "toString", "valueOf", "hasOwnProperty"}
\* what ERROR_CODES[name] is for a name every object inherits: a function
InheritedMember(name) == "Object.prototype." \o name
\* getErrorCode(errorType): ERROR_CODES[errorType] || ERROR_CODES.UNKNOWN_ERROR
GetErrorCode(errorType) ==
    IF errorType \in DOMAIN ERROR_CODES THEN ERROR_CODES[errorType]
    ELSE IF errorType \in ObjectPrototypeNames
         THEN InheritedMember(errorType)
    ELSE ERROR_CODES["UNKNOWN_ERROR"]

\* variant: a response stamped with the time of the call
CreateErrorResponseStampedNow(e, t) ==
    [error |-> TRUE,
     message |-> IF IsFCAError(e) \/ e.message # "" THEN e.message ELSE UNKNOWN_MESSAGE,
     code |-> IF IsFCAError(e) THEN e.code ELSE "UNKNOWN_ERROR",
     errorCode |-> IF IsFCAError(e) THEN GetErrorCode(e.code) ELSE ERROR_CODES["UNKNOWN_ERROR"],
     details |-> IF IsFCAError(e) THEN e.details ELSE EmptyDetails,
     timestamp |-> <<t>>]
\* createErrorResponse(error), called at time t
CreateErrorResponse(e, t) ==
    IF IsFCAError(e)
    THEN [error |-> TRUE, message |-> e.message, code |-> e.code,
          errorCode |-> GetErrorCode(e.code), details |-> e.details,
          timestamp |-> e.timestamp]
    ELSE [error |-> TRUE,
          message |-> IF e.message = "" THEN UNKNOWN_MESSAGE ELSE e.message,
          code |-> "UNKNOWN_ERROR", errorCode |-> ERROR_CODES["UNKNOWN_ERROR"],
          details |-> EmptyDetails, timestamp |-> <<t>>]

\* the stack property every Error object gets when it is constructed
StackOf(e) == <<"stack", e.class, e.message>>
\* the stack traces a response record carries: it has no stack field of its
\* own, and its details are the details of the error, with the error objects
\* stored in them
ResponseStacks(r) ==
    {StackOf(r.details.originalError[i]) : i \in DOMAIN r.details.originalError}

\* the messages and details errors are constructed with
MessagesTried == {"m1", "m2"}
DetailsTried == {EmptyDetails, [EmptyDetails EXCEPT !.tag = "d1"]}
\* the errors that can exist at time t: one of each subclass, an FCAError with
\* a code of the caller's choice, and plain errors, constructed at some time
\* up to t
CodesGiven == {"TEST_ERROR", "AUTH_LOGIN_FAILED", "SECURITY_ERROR", undefined}
UtilityErrorsTried(t) ==
    {NewClassError(c, m, d, u) : c \in DOMAIN ClassCode, m \in MessagesTried,
                                 d \in DetailsTried, u \in 1..t}
      \cup {NewFCAError(m, c, EmptyDetails, u) : m \in MessagesTried, c \in CodesGiven, u \in 1..t}
      \cup {NewError(m, c) : m \in MessagesTried \cup {""}, c \in {undefined, "ERR_NETWORK_01"}}
\* the strings getErrorCode is called with
ErrorTypesTried ==
    DOMAIN ERROR_CODES
      \cup {ClassCode[c] : c \in DOMAIN ClassCode}
      \cup {"UNKNOWN_TYPE", "ERR_AUTH_01", "auth_login_failed", "", "constructor", "toString"}

\* ---- parameter validation ---------------------------------------------------
\* a JavaScript value passed as params: its type, whether it is falsy, and for
\* an object its own properties, each with its value
null == "null"
Primitive(type, falsy) == [type |-> type, falsy |-> falsy, own |-> <<>>]
ObjectOf(own) == [type |-> "object", falsy |-> FALSE, own |-> own]
\* typeof v: "object" for null
TypeOf(v) == IF v.type = "null" THEN "object" ELSE v.type
\* params[name] for an object params: the own property, else the member
\* inherited from Object.prototype, else undefined
GetProperty(v, name) ==
    IF name \in DOMAIN v.own THEN v.own[name]
    ELSE IF name \in ObjectPrototypeNames THEN InheritedMember(name)
    ELSE undefined
PARAMS_MESSAGE == "Parameters must be an object"
MissingMessage(param) == "Required parameter '" \o param \o "' is missing"
\* the first position of `required` whose parameter is undefined or null in
\* params, 0 when there is none
FirstMissing(params, required) ==
    LET missing == {i \in DOMAIN required :
                       GetProperty(params, required[i]) \in {undefined, null}}
    IN IF missing = {} THEN 0 ELSE CHOOSE i \in missing : \A j \in missing : i <= j

\* variant: only the typeof test, so that null reaches the loop
ValidateRequiredParamsTypeofOnly(params, required, t) ==
    IF TypeOf(params) # "object"
    THEN [thrown |-> <<NewClassError("ValidationError", PARAMS_MESSAGE, EmptyDetails, t)>>]
    ELSE IF params.type = "null"
    THEN [thrown |-> IF required = <<>> THEN <<>> ELSE <<NewError("Cannot read properties of null", undefined)>>]
    ELSE IF FirstMissing(params, required) = 0 THEN [thrown |-> <<>>]
    ELSE [thrown |-> <<NewClassError("ValidationError",
                                     MissingMessage(required[FirstMissing(params, required)]),
                                     EmptyDetails, t)>>]
\* validateRequiredParams(params, required), called at time t: what it throws
ValidateRequiredParams(params, required, t) ==
    IF params.falsy \/ TypeOf(params) # "object"
    THEN [thrown |-> <<NewClassError("ValidationError", PARAMS_MESSAGE, EmptyDetails, t)>>]
    ELSE IF FirstMissing(params, required) = 0 THEN [thrown |-> <<>>]
    ELSE [thrown |-> <<NewClassError("ValidationError",
                                     MissingMessage(required[FirstMissing(params, required)]),
                                     EmptyDetails, t)>>]

\* the params tried: null, undefined, strings, numbers and booleans, falsy and
\* not, and the objects that have some of the properties id and name, each
\* with a value, 0, null or undefined
ParamNames == {"id", "name"}
PropertyValues == {"v", "0", null, undefined}
PrimitivesTried ==
    {Primitive("null", TRUE), Primitive("undefined", TRUE)}
      \cup {Primitive(ty, f) : ty \in {"string", "number", "boolean"}, f \in BOOLEAN}
ObjectsTried == {ObjectOf(own) : own \in UNION {[S -> PropertyValues] : S \in SUBSET ParamNames}}
ParamsTried == PrimitivesTried \cup ObjectsTried
\* the lists of required names tried
RequiredTried == {<<>>, <<"id">>, <<"name">>, <<"id", "name">>, <<"name", "id">>,
                  <<"constructor">>, <<"id", "constructor">>}

\* ---- login -------------------------------------------------------------------
\* getType(x) === "Function" || getType(x) === "AsyncFunction"
IsFunction(v) == v.type = "function"
\* login(loginData, options, callback), called at time t while config.autoUpdate
\* is autoUpdate and the update check ends as `update`: the error it hands
\* over, how (via) and to which function (receiver), and whether it made the
\* update check and called loginHelper
Login(loginData, opts, callback, autoUpdate, update, t) ==
    IF loginData.falsy \/ TypeOf(loginData) # "object"
    THEN [error |-> <<NewClassError("ValidationError",
                                   "Login data is required and must be an object",
                                   EmptyDetails, t)>>,
          via |-> IF IsFunction(callback) THEN "callback" ELSE "throw",
          receiver |-> IF IsFunction(callback) THEN "callback" ELSE "none",
          updateCheck |-> FALSE, loginHelper |-> FALSE]
    ELSE LET receiver == IF IsFunction(opts) THEN "options"
                         ELSE IF IsFunction(callback) THEN "callback" ELSE "promise"
             failed == autoUpdate /\ update = "rejected"
         IN [error |-> IF failed THEN <<NewError("update check failed", undefined)>> ELSE <<>>,
             via |-> IF failed THEN "callback" ELSE "started",
             receiver |-> receiver,
             updateCheck |-> autoUpdate, loginHelper |-> ~failed]
\* the loginData tried, and the values tried in the options and the callback
\* position
LoginDataTried == PrimitivesTried \cup {Primitive("function", FALSE), ObjectOf(<<>>),
                                         ObjectOf([n \in {"id"} |-> "v"])}
ArgumentsTried == {Primitive("undefined", TRUE), Primitive("function", FALSE), ObjectOf(<<>>)}

\* ---- configuration ----------------------------------------------------------
\* a configuration value with its typeof; an object is a function from its
\* property names
Bool(b) == [t |-> "boolean", v |-> IF b THEN "true" ELSE "false"]
Num(n) == [t |-> "number", v |-> n]
Str(x) == [t |-> "string", v |-> x]
NoObject == [k \in {} |-> Str("")]
\* { ...a, ...b }: the properties of b replace those of a, whole
Spread(a, b) == [k \in DOMAIN a \cup DOMAIN b |-> IF k \in DOMAIN b THEN b[k] ELSE a[k]]
\* the object { [k]: v } when cond, {} otherwise
Prop(cond, k, v) == IF cond THEN [x \in {k} |-> v] ELSE NoObject
defaultConfig ==
    [autoUpdate |-> Bool(TRUE),
     mqtt |-> [enabled |-> Bool(TRUE), reconnectInterval |-> Num("3600")],
     autoLogin |-> Bool(TRUE),
     credentials |-> [email |-> Str(""), password |-> Str(""), twofactor |-> Str("")],
     logging |-> [level |-> Str("info"), format |-> Str("json")],
     security |-> [encryptCredentials |-> Bool(TRUE), encryptionKey |-> Str("")]]
\* every setting, as a path
Settings ==
    LET groups == {"mqtt", "credentials", "logging", "security"}
    IN {<<k>> : k \in DOMAIN defaultConfig \ groups}
         \cup UNION {{<<g, k>> : k \in DOMAIN defaultConfig[g]} : g \in groups}
\* config has a value for the setting; the value
HasSetting(config, path) ==
    /\ path[1] \in DOMAIN config
    /\ Len(path) = 2 => path[2] \in DOMAIN config[path[1]]
SettingOf(config, path) == IF Len(path) = 1 THEN config[path[1]] ELSE config[path[1]][path[2]]

\* parseInt(x) || 3600 for the strings tried: NaN and 0 are falsy
ParseIntOr3600(x) == IF x \in {"60", "3600"} THEN x ELSE "3600"
\* x || d for a string x
StringOr(x, d) == IF x = "" THEN d ELSE x
\* loadFromEnv(), where env is process.env as a function from the names of
\* the variables that are defined
LoadFromEnv(env) ==
    LET has(n) == n \in DOMAIN env
        group(g, names, body) == Prop(\E n \in names : has(n), g, body)
    IN Spread(Spread(Spread(Spread(Spread(
         Prop(has("FCA_AUTO_UPDATE"), "autoUpdate", Bool(env["FCA_AUTO_UPDATE"] = "true")),
         group("mqtt", {"FCA_MQTT_ENABLED", "FCA_MQTT_RECONNECT_INTERVAL"},
               Spread(Prop(has("FCA_MQTT_ENABLED"), "enabled",
                           Bool(env["FCA_MQTT_ENABLED"] # "false")),
                      Prop(has("FCA_MQTT_RECONNECT_INTERVAL"), "reconnectInterval",
                           Num(ParseIntOr3600(env["FCA_MQTT_RECONNECT_INTERVAL"])))))),
         Prop(has("FCA_AUTO_LOGIN"), "autoLogin", Bool(env["FCA_AUTO_LOGIN"] = "true"))),
         group("credentials", {"FCA_EMAIL", "FCA_PASSWORD", "FCA_TWOFACTOR"},
               Spread(Spread(Prop(has("FCA_EMAIL"), "email", Str(env["FCA_EMAIL"])),
                             Prop(has("FCA_PASSWORD"), "password", Str(env["FCA_PASSWORD"]))),
                      Prop(has("FCA_TWOFACTOR"), "twofactor", Str(env["FCA_TWOFACTOR"]))))),
         group("logging", {"FCA_LOG_LEVEL", "FCA_LOG_FORMAT"},
               Spread(Prop(has("FCA_LOG_LEVEL"), "level",
                           Str(StringOr(env["FCA_LOG_LEVEL"], "info"))),
                      Prop(has("FCA_LOG_FORMAT"), "format",
                           Str(StringOr(env["FCA_LOG_FORMAT"], "json")))))),
         group("security", {"FCA_ENCRYPT_CREDENTIALS", "FCA_ENCRYPTION_KEY"},
               Spread(Prop(has("FCA_ENCRYPT_CREDENTIALS"), "encryptCredentials",
                           Bool(env["FCA_ENCRYPT_CREDENTIALS"] = "true")),
                      Prop(has("FCA_ENCRYPTION_KEY"), "encryptionKey",
                           Str(env["FCA_ENCRYPTION_KEY"])))))

\* typeof config[g][k] === t, undefined for a property that is not there
HasType(config, g, k, t) == k \in DOMAIN config[g] /\ config[g][k].t = t
OneOf(config, g, k, allowed) ==
    k \in DOMAIN config[g] /\ config[g][k].t = "string" /\ config[g][k].v \in allowed
\* validateConfig(config): TRUE when it returns, FALSE when it throws
ValidateConfig(config) ==
    /\ config.autoUpdate.t = "boolean"
    /\ HasType(config, "mqtt", "enabled", "boolean")
    /\ HasType(config, "mqtt", "reconnectInterval", "number")
    /\ config.autoLogin.t = "boolean"
    /\ OneOf(config, "logging", "level", {"info", "warn", "error", "debug"})
    /\ OneOf(config, "logging", "format", {"json", "text"})

\* the loop over the three config paths: the first file that loadFromFile
\* could load, each result <<>> for null and <<object>> otherwise
FirstLoaded(files) ==
    IF \A i \in DOMAIN files : files[i] = <<>> THEN NoObject
    ELSE files[CHOOSE i \in DOMAIN files :
                   files[i] # <<>> /\ \A j \in 1..(i - 1) : files[j] = <<>>][1]
\* loadConfig(): the config of { config }
LoadConfig(files, env) ==
    LET config == Spread(Spread(defaultConfig, FirstLoaded(files)), LoadFromEnv(env))
    IN IF ValidateConfig(config) THEN config ELSE defaultConfig

\* the results of loadFromFile tried for fca-config.json, .yaml and .yml, and
\* the environments tried
FileObjectsTried ==
    {[autoUpdate |-> Bool(FALSE)],
     [credentials |-> [email |-> Str("e@file"), password |-> Str("pw"), twofactor |-> Str("")]],
     [mqtt |-> [enabled |-> Bool(FALSE), reconnectInterval |-> Num("60")]],
     [logging |-> [level |-> Str("warn"), format |-> Str("text")], autoLogin |-> Bool(FALSE)]}
FilesTried ==
    {<<<<>>, <<>>, <<>>>>}
      \cup {<<<<f>>, <<>>, <<>>>> : f \in FileObjectsTried}
      \cup {<<<<>>, <<f>>, <<[autoUpdate |-> Bool(FALSE)]>>>> : f \in FileObjectsTried}
EnvValuesTried ==
    [FCA_AUTO_UPDATE |-> {"true", "false"}, FCA_MQTT_ENABLED |-> {"false"},
     FCA_EMAIL |-> {"e@env"}, FCA_LOG_LEVEL |-> {"debug", "verbose"}]
EnvsTried ==
    UNION {{env \in [V -> UNION {EnvValuesTried[n] : n \in V}] :
                \A n \in V : env[n] \in EnvValuesTried[n]}
             : V \in SUBSET DOMAIN EnvValuesTried}

NoResponse == CreateErrorResponse(NewError("", undefined), 0)
NoUtilityCall == [op |-> "none", err |-> NewError("", undefined), arg |-> undefined,
                  text |-> undefined, response |-> NoResponse, at |-> 0,
                  params |-> Primitive("undefined", TRUE), required |-> <<>>,
                  thrown |-> <<>>, options |-> Primitive("undefined", TRUE),
                  callback |-> Primitive("undefined", TRUE), result |-> <<>>]

\* ---- error handler: tables and helpers -----------------------------------
\* the callers that can have a handleApiError call in flight
Procs == {"p1", "p2"}
\* the longest run of consecutive failures that is counted
MaxStreak == 5

\* RETRY_CONFIG, keyed by the values of ERROR_CODES.NETWORK_TIMEOUT,
\* NETWORK_CONNECTION_FAILED and AUTH_SESSION_EXPIRED
RETRY_CONFIG ==
    ("ERR_NETWORK_01" :> [maxRetries |-> 3, delay |-> 1000])
      @@ ("ERR_NETWORK_02" :> [maxRetries |-> 3, delay |-> 2000])
      @@ ("ERR_AUTH_04" :> [maxRetries |-> 1, delay |-> 0])
\* ERROR_CODES.UNKNOWN_ERROR
UNKNOWN_ERROR == "ERR_GENERAL_01"

\* the errors tried: a plain Error carrying the NETWORK_TIMEOUT code, an
\* FCAError carrying the AUTH_SESSION_EXPIRED code, a NetworkError, a plain
\* Error without code, and a plain Error whose code is "constructor"
NoError == [code |-> undefined, fca |-> FALSE, none |-> TRUE]
ErrorsTried ==
    {[code |-> "ERR_NETWORK_01", fca |-> FALSE, none |-> FALSE],
     [code |-> "ERR_AUTH_04", fca |-> TRUE, none |-> FALSE],
     [code |-> "NETWORK_ERROR", fca |-> TRUE, none |-> FALSE],
     [code |-> undefined, fca |-> FALSE, none |-> FALSE],
     [code |-> "constructor", fca |-> FALSE, none |-> FALSE]}
\* error.code || ERROR_CODES.UNKNOWN_ERROR
ErrorCode(e) == IF e.code = undefined \/ e.code = "" THEN UNKNOWN_ERROR ELSE e.code

\* the options argument: each field <<>> when left out, <<x>> when given
NoOptions == [retry |-> <<>>, maxRetries |-> <<>>, retryDelay |-> <<>>,
              report |-> <<>>, logLevel |-> <<>>]
HandlerOptionsTried ==
    {NoOptions,
     [NoOptions EXCEPT !.retry = <<TRUE>>],
     [NoOptions EXCEPT !.retry = <<TRUE>>, !.maxRetries = <<1>>],
     [NoOptions EXCEPT !.retry = <<TRUE>>, !.maxRetries = <<0>>]}
\* the defaults of handleApiError, and { ...defaults, ...options }
DefaultOptions == [retry |-> FALSE, maxRetries |-> 3, retryDelay |-> 1000,
                   report |-> TRUE, logLevel |-> "error"]
MergeOptions(o) ==
    [f \in DOMAIN DefaultOptions |-> IF o[f] = <<>> THEN DefaultOptions[f] ELSE o[f][1]]

\* RETRY_CONFIG[errorCode], as a condition
HasOwnEntry(code) == code \in DOMAIN RETRY_CONFIG
HasProperty(code) == code \in DOMAIN RETRY_CONFIG \/ code \in ObjectPrototypeNames
\* shouldRetry(errorCode, maxRetries): a && b is a when a is falsy, else b
ShouldRetry(code, maxRetries) ==
    IF ~HasProperty(code) THEN "undefined"
    ELSE IF maxRetries > 0 THEN "true" ELSE "false"
Truthy(x) == x = "true"

\* getRetryCount(errorCode)
GetRetryCount(rc, key) == IF key \in DOMAIN rc /\ rc[key] # 0 THEN rc[key] ELSE 0
\* variant: a retry counted twice
IncrementRetryCountTwice(rc, key) ==
    [x \in DOMAIN rc \cup {key} |-> IF x = key THEN GetRetryCount(rc, key) + 2 ELSE rc[x]]
\* incrementRetryCount(errorCode)
IncrementRetryCount(rc, key) ==
    [x \in DOMAIN rc \cup {key} |-> IF x = key THEN GetRetryCount(rc, key) + 1 ELSE rc[x]]
\* variant: an exhaustion that keeps the counter
ResetRetryCountKeeps(rc, key) == rc
\* resetRetryCount(errorCode)
ResetRetryCount(rc, key) == [x \in DOMAIN rc \ {key} |-> rc[x]]
\* variant: a counter of its own for every caller
RetryKeyPerCaller(p, code) == p \o ":" \o code
\* the key under which a call of caller p counts its retries
RetryKey(p, code) == code

\* variant: one more retry than the budget
WithinBudgetInclusive(retryCount, maxRetries) == retryCount <= maxRetries
\* retryCount < opts.maxRetries
WithinBudget(retryCount, maxRetries) == retryCount < maxRetries
\* variant: a delay that holds up every other call
CanEnterExclusive(cs, p) == \A q \in DOMAIN cs : cs[q].pc = "idle"
\* every call of the async function has its own activation: a caller can
\* enter whenever its own previous call is over
CanEnter(cs, p) == cs[p].pc = "idle"

\* variant: every thrown error wrapped, FCAError or not
DeliveredAlwaysWrapped(e, cb) == IF cb THEN "original" ELSE "wrapped"
\* what a call that does not retry hands to its caller
Delivered(e, cb) == IF cb \/ e.fca THEN "original" ELSE "wrapped"

\* new NetworkError('An unexpected error occurred', { originalError: error })
WrapUnknown(e) ==
    [code |-> "NETWORK_ERROR", fca |-> TRUE, none |-> FALSE,
     message |-> "An unexpected error occurred",
     originalError |-> <<e>>, retryAttempt |-> 0]
\* new Error(`Retry attempt ${n}`)
RetryMarker(n) ==
    [code |-> undefined, fca |-> FALSE, none |-> FALSE,
     message |-> "Retry attempt " \o ToString(n),
     originalError |-> <<>>, retryAttempt |-> 0]
\* new NetworkError(`Operation failed, retry attempt ${n}`,
\*                  { originalError: error, retryAttempt: n })
RetryError(e, n) ==
    [code |-> "NETWORK_ERROR", fca |-> TRUE, none |-> FALSE,
     message |-> "Operation failed, retry attempt " \o ToString(n),
     originalError |-> <<e>>, retryAttempt |-> n]
\* what a log call that raises throws: it is no FCAError and not the error
\* being handled
LogFailure ==
    [code |-> undefined, fca |-> FALSE, none |-> FALSE,
     message |-> "logger failure", originalError |-> <<>>, retryAttempt |-> 0]
\* variant: every error wrapped before it is handed over
GivenAlwaysWrapped(e, cb) == WrapUnknown(e)
\* variant: every error handed over as it is
GivenRaw(e, cb) == e
\* the error object a call that does not retry hands to its caller
Given(e, cb) == IF Delivered(e, cb) = "original" THEN e ELSE WrapUnknown(e)
\* variant: a delay that ends without a signal
RetrySignalDropped(c) == NoError
\* the error object a call hands to its caller when its retry delay is over
RetrySignal(c) ==
    IF c.cb THEN RetryMarker(c.retryCount + 1) ELSE RetryError(c.err, c.retryCount + 1)
\* variant: a report made whether enabled or not
ReportsAlways(enabled) == 1
\* if (opts.report) reportError(errorDetails): the number of reports made
Reports(enabled) == IF enabled THEN 1 ELSE 0
\* variant: a retry decision that is not logged
DecisionLogNone(decision) == <<>>
\* the level of the log call a retry decision makes: logger.info for a retry
\* granted, logger.warn for a budget exceeded
DecisionLog(decision) ==
    IF decision = "retry" THEN <<"info">>
    ELSE IF decision = "exhausted" THEN <<"warn">> ELSE <<>>
\* the first of the log calls `attempted` that raises, 0 when none does
FirstRaising(attempted, raising) ==
    IF \E i \in DOMAIN attempted : attempted[i] \in raising
    THEN CHOOSE i \in DOMAIN attempted :
            /\ attempted[i] \in raising
            /\ \A j \in 1..(i - 1) : attempted[j] \notin raising
    ELSE 0

Idle == [pc |-> "idle", err |-> NoError, opts |-> DefaultOptions, cb |-> FALSE,
         retryCount |-> 0]
NoEvent == [op |-> "none", proc |-> "none", err |-> NoError, opts |-> DefaultOptions,
            cb |-> FALSE, attempts |-> 0, decision |-> "none", delivered |-> "none",
            via |-> "none", attempt |-> 0, logs |-> <<>>, reports |-> 0, wait |-> 0,
            code |-> undefined, maxRetries |-> 0, ret |-> undefined,
            given |-> NoError, raised |-> FALSE, trace |-> <<>>]
NoStreak == [code |-> undefined, maxRetries |-> 0, n |-> 0]

HandlerInit ==
    /\ retryCounts = <<>>
    /\ calls = [p \in Procs |-> Idle]
    /\ hlast = NoEvent
    /\ streak = NoStreak
    /\ plast = NoUtilityCall

\* ---- the state machine ---------------------------------------------------
\* new Cache(options)
Init ==
    /\ options \in OptionsTried
    /\ maxSize = OrDefault(<<options.maxSize>>, DEFAULT_MAX_SIZE)
    /\ defaultTTL = OrDefault(<<options.defaultTTL>>, DEFAULT_TTL)
    /\ cache = <<>>
    /\ timestamps = <<>>
    /\ now = 1
    /\ older = {}
    /\ last = NoCall
    /\ HandlerInit

\* set(key, value, ttl)
Set(k, v, ttl) ==
    /\ cache' = SetState(cache, timestamps, maxSize, k, v, now, ttl, defaultTTL).cache
    /\ timestamps' = SetState(cache, timestamps, maxSize, k, v, now, ttl, defaultTTL).timestamps
    /\ older' = LET e == IF IsFull(cache, maxSize) THEN FirstKey(cache) ELSE undefined
                IN  OlderInsert(OlderDelete(older, e), MapKeys(Evicted(cache, maxSize)), k)
    /\ last' = [NoCall EXCEPT !.op = "set", !.key = k, !.value = v, !.ttl = ttl,
                              !.had = MapHas(cache, k),
                              !.evicted = IF IsFull(cache, maxSize)
                                          THEN FirstKey(cache) ELSE undefined]
    /\ UNCHANGED <<options, maxSize, defaultTTL, now>>
    /\ UNCHANGED hvars

\* delete(key), on both Maps
DeleteFrom(k) ==
    /\ cache' = MapDelete(cache, k)
    /\ timestamps' = [x \in DOMAIN timestamps \ {k} |-> timestamps[x]]
    /\ older' = OlderDelete(older, k)

\* get(key)
GetResult(m, ts, k, t) ==
    IF ~MapHas(m, k) THEN undefined
    ELSE IF Expired(ts[k], t) THEN undefined
    ELSE MapGet(m, k)
GetDeletes(m, ts, k, t) == MapHas(m, k) /\ Expired(ts[k], t)
Get(k) ==
    /\ IF GetDeletes(cache, timestamps, k, now)
       THEN DeleteFrom(k)
       ELSE UNCHANGED <<cache, timestamps, older>>
    /\ last' = [NoCall EXCEPT !.op = "get", !.key = k,
                              !.ret = GetResult(cache, timestamps, k, now),
                              !.had = MapHas(cache, k),
                              !.afterSet = (last.op = "set" /\ last.key = k),
                              !.setValue = IF last.op = "set" /\ last.key = k
                                           THEN last.value ELSE undefined,
                              !.setTtl = IF last.op = "set" /\ last.key = k
                                         THEN last.ttl ELSE NoArg]
    /\ UNCHANGED <<options, maxSize, defaultTTL, now>>
    /\ UNCHANGED hvars

\* has(key)
HasResult(m, ts, k, t) == MapHas(m, k)
Has(k) ==
    /\ last' = [NoCall EXCEPT !.op = "has", !.key = k,
                              !.bool = HasResult(cache, timestamps, k, now),
                              !.had = MapHas(cache, k)]
    /\ UNCHANGED <<options, maxSize, defaultTTL, cache, timestamps, now, older>>
    /\ UNCHANGED hvars

\* delete(key)
Delete(k) ==
    /\ DeleteFrom(k)
    /\ last' = [NoCall EXCEPT !.op = "delete", !.key = k, !.had = MapHas(cache, k)]
    /\ UNCHANGED <<options, maxSize, defaultTTL, now>>
    /\ UNCHANGED hvars

\* clear()
Clear ==
    /\ cache' = <<>>
    /\ timestamps' = <<>>
    /\ older' = {}
    /\ last' = [NoCall EXCEPT !.op = "clear"]
    /\ UNCHANGED <<options, maxSize, defaultTTL, now>>
    /\ UNCHANGED hvars

\* size()
SizeCall ==
    /\ last' = [NoCall EXCEPT !.op = "size", !.num = Size(cache)]
    /\ UNCHANGED <<options, maxSize, defaultTTL, cache, timestamps, now, older>>
    /\ UNCHANGED hvars

\* stats()
StatsCall ==
    /\ last' = [NoCall EXCEPT !.op = "stats",
                              !.num = Stats(cache, maxSize, defaultTTL).size]
    /\ UNCHANGED <<options, maxSize, defaultTTL, cache, timestamps, now, older>>
    /\ UNCHANGED hvars

\* the clock advances; nothing else runs
Tick ==
    /\ now < MaxTime
    /\ now' = now + 1
    /\ last' = [NoCall EXCEPT !.op = "tick"]
    /\ UNCHANGED <<options, maxSize, defaultTTL, cache, timestamps, older>>
    /\ UNCHANGED hvars

Next ==
    \/ \E k \in Keys, ttl \in TTLArgs : \E v \in ValuesFor(k) : Set(k, v, ttl)
    \/ \E k \in Keys : Get(k)
    \/ \E k \in Keys : Has(k)
    \/ \E k \in Keys : Delete(k)
    \/ Clear
    \/ SizeCall
    \/ StatsCall
    \/ Tick

Spec == Init /\ [][Next]_vars

\* ---- error handler: the state machine --------------------------------------
\* the run of consecutive retryable failures after one more call for `code`
\* under budget m, which found the counter at `count`
StreakAfter(st, code, m, count) ==
    IF st.n >= 1 /\ st.code = code /\ st.maxRetries = m
    THEN [st EXCEPT !.n = IF st.n > MaxStreak THEN st.n ELSE st.n + 1]
    ELSE IF count = 0 THEN [code |-> code, maxRetries |-> m, n |-> 1]
    ELSE NoStreak

\* the retry evaluation of handleApiError: the options in force, the code of
\* the error, the counter it reads and what it decides
RetryDecision(rc, p, e, o) ==
    LET opts == MergeOptions(o)
        errorCode == ErrorCode(e)
        key == RetryKey(p, errorCode)
        retryable == opts.retry /\ Truthy(ShouldRetry(errorCode, opts.maxRetries))
        retryCount == GetRetryCount(rc, key)
        granted == retryable /\ WithinBudget(retryCount, opts.maxRetries)
    IN [opts |-> opts, errorCode |-> errorCode, key |-> key, retryable |-> retryable,
        retryCount |-> retryCount, granted |-> granted,
        decision |-> IF granted THEN "retry" ELSE IF retryable THEN "exhausted" ELSE "none"]

\* the steps of handleApiError under the retry evaluation d, from its entry to
\* the await of the retry delay or, when it does not retry, to its end
OutcomeOf(rc, p, e, cb, raising, d) ==
    LET opts == d.opts
        \* the log calls in the order of the code: the error, the report, the
        \* retry decision
        early == <<opts.logLevel>> \o (IF opts.report THEN <<"debug">> ELSE <<>>)
        attempted == early \o DecisionLog(d.decision)
        failAt == FirstRaising(attempted, raising)
        raised == failAt # 0
        logs == IF raised THEN SubSeq(attempted, 1, failAt) ELSE attempted
        reported == opts.report /\ (~raised \/ failAt >= 2)
        decided == ~raised \/ failAt > Len(early)
        suspended == d.granted /\ ~raised
        event == [NoEvent EXCEPT !.proc = p, !.err = e, !.opts = opts, !.cb = cb,
                                 !.code = d.errorCode, !.attempts = d.retryCount,
                                 !.maxRetries = opts.maxRetries,
                                 !.reports = Reports(reported),
                                 !.logs = logs, !.raised = raised,
                                 !.decision = IF decided THEN d.decision ELSE "none"]
        \* the steps taken, in the order of the code
        earlyCalls == IF decided THEN Len(early) ELSE failAt
        trace == [i \in 1..earlyCalls |-> "log"]
                   \o (IF decided /\ d.granted THEN <<"increment">> ELSE <<>>)
                   \o (IF decided THEN [i \in 1..Len(DecisionLog(d.decision)) |-> "log"] ELSE <<>>)
                   \o (IF ~raised /\ d.decision = "exhausted" THEN <<"reset">> ELSE <<>>)
    IN
    [retryCounts |-> IF decided /\ d.granted THEN IncrementRetryCount(rc, d.key)
                     ELSE IF ~raised /\ d.decision = "exhausted" THEN ResetRetryCount(rc, d.key)
                     ELSE rc,
     call |-> IF suspended
              THEN [pc |-> "delay", err |-> e, opts |-> opts, cb |-> cb,
                    retryCount |-> d.retryCount]
              ELSE Idle,
     retryable |-> d.retryable,
     event |-> IF suspended
               THEN [event EXCEPT !.op = "suspend", !.attempt = d.retryCount + 1,
                                  !.wait = opts.retryDelay,
                                  !.trace = trace \o <<"await">>]
               ELSE IF raised
               THEN [event EXCEPT !.op = "settle", !.delivered = "logFailure",
                                  !.via = "throw", !.given = LogFailure,
                                  !.trace = trace \o <<"throw">>]
               ELSE [event EXCEPT !.op = "settle", !.delivered = Delivered(e, cb),
                                  !.via = IF cb THEN "callback" ELSE "throw",
                                  !.given = Given(e, cb),
                                  !.trace = trace \o <<IF cb THEN "callback" ELSE "throw">>]]

\* handleApiError(error, context, options, callback), from its entry to the
\* await of the retry delay or, when it does not retry, to its end, as a
\* function of the retry counters rc and of the levels at which a log call
\* raises: the counters it leaves, the call it leaves suspended, and the event
HandleOutcome(rc, p, e, o, cb, raising) ==
    CHOOSE out \in {OutcomeOf(rc, p, e, cb, raising, d) : d \in {RetryDecision(rc, p, e, o)}} : TRUE

\* handleApiError called by caller p while the log calls at the levels in
\* `raising` raise
HandleApiErrorWith(p, e, o, cb, raising) ==
    /\ CanEnter(calls, p)
    /\ \E out \in {HandleOutcome(retryCounts, p, e, o, cb, raising)} :
          /\ retryCounts' = out.retryCounts
          /\ calls' = [calls EXCEPT ![p] = out.call]
          /\ hlast' = out.event
          /\ streak' = IF out.retryable /\ ~out.event.raised
                       THEN StreakAfter(streak, out.event.code, out.event.maxRetries,
                                        out.event.attempts)
                       ELSE NoStreak
          /\ UNCHANGED <<cvars, plast>>

\* handleApiError called by caller p with a logger whose calls return
HandleApiError(p, e, o, cb) == HandleApiErrorWith(p, e, o, cb, {})

\* the retry delay of caller p's call is over: the call hands the retry
\* signal to the callback, or throws it
Resume(p) ==
    LET c == calls[p] IN
    /\ c.pc = "delay"
    /\ calls' = [calls EXCEPT ![p] = Idle]
    /\ hlast' = [NoEvent EXCEPT !.op = "resume", !.proc = p, !.err = c.err,
                                !.opts = c.opts, !.cb = c.cb,
                                !.code = ErrorCode(c.err),
                                !.attempts = c.retryCount, !.decision = "retry",
                                !.delivered = IF c.cb THEN "retryMarker" ELSE "retryError",
                                !.via = IF c.cb THEN "callback" ELSE "throw",
                                !.attempt = c.retryCount + 1,
                                !.maxRetries = c.opts.maxRetries,
                                !.wait = c.opts.retryDelay,
                                !.given = RetrySignal(c),
                                !.trace = <<IF c.cb THEN "callback" ELSE "throw">>]
    /\ UNCHANGED <<retryCounts, streak>>
    /\ UNCHANGED <<cvars, plast>>

\* how the promise of a function wrapped by withErrorHandling settles when
\* the handleApiError call in its catch block has ended with event ev: the
\* error handleApiError throws rejects it; a handleApiError that returns
\* lets the catch block end, and the promise resolves with undefined
WithErrorHandlingSettles(ev) ==
    IF ev.via = "throw" THEN [state |-> "rejected", with |-> ev.given]
    ELSE [state |-> "resolved", with |-> NoError]

\* a function wrapped by withErrorHandling returns without throwing; the
\* event remembers the error whose retry signal the caller had just received
WrappedReturn(p) ==
    LET retried == hlast.op = "resume" /\ hlast.proc = p IN
    /\ calls[p].pc = "idle"
    /\ hlast' = [NoEvent EXCEPT !.op = "return", !.proc = p,
                                !.err = IF retried THEN hlast.err ELSE NoError,
                                !.code = IF retried THEN hlast.code ELSE undefined]
    /\ streak' = NoStreak
    /\ UNCHANGED <<retryCounts, calls>>
    /\ UNCHANGED <<cvars, plast>>

\* shouldRetry(errorCode, maxRetries), called on its own
ShouldRetryCall(code, m) ==
    /\ hlast' = [NoEvent EXCEPT !.op = "shouldRetry", !.code = code,
                                !.maxRetries = m, !.ret = ShouldRetry(code, m)]
    /\ UNCHANGED <<retryCounts, calls, streak>>
    /\ UNCHANGED <<cvars, plast>>

\* the codes and budgets shouldRetry is called with
CodesTried == {ErrorCode(e) : e \in ErrorsTried}
BudgetsTried == {-1, 0, 1, 3}

\* one caller, every error and every options object tried
InitRetry ==
    /\ Init
    /\ options = [maxSize |-> 1, defaultTTL |-> 2]

NextRetry ==
    \/ \E e \in ErrorsTried, o \in HandlerOptionsTried, cb \in BOOLEAN :
           HandleApiError("p1", e, o, cb)
    \/ Resume("p1")
    \/ WrappedReturn("p1")
    \/ \E code \in CodesTried, m \in BudgetsTried : ShouldRetryCall(code, m)

SpecRetry == InitRetry /\ [][NextRetry]_vars

\* two callers whose calls interleave, next to a cache in use
SharedErrorsTried == {e \in ErrorsTried : e.code \in {"ERR_NETWORK_01", "ERR_AUTH_04"}}
SharedOptionsTried == {[NoOptions EXCEPT !.retry = <<TRUE>>]}

NextShared ==
    \/ \E p \in Procs, e \in SharedErrorsTried, o \in SharedOptionsTried, cb \in BOOLEAN :
           HandleApiError(p, e, o, cb)
    \/ \E p \in Procs : Resume(p)
    \/ Set("k1", "v1", NoArg)
    \/ Get("k1")

SpecShared == InitRetry /\ [][NextShared]_vars

\* one caller, a logger whose calls return, options that also switch the
\* report off and choose the log level
CollabErrorsTried == {e \in ErrorsTried : e.code \in {"ERR_NETWORK_01", "ERR_AUTH_04", undefined}}
CollabOptionsTried ==
    {NoOptions,
     [NoOptions EXCEPT !.report = <<FALSE>>],
     [NoOptions EXCEPT !.retry = <<TRUE>>, !.maxRetries = <<1>>],
     [NoOptions EXCEPT !.retry = <<TRUE>>, !.maxRetries = <<1>>, !.report = <<FALSE>>,
                       !.logLevel = <<"warn">>]}

NextCollab ==
    \/ \E e \in CollabErrorsTried, o \in CollabOptionsTried, cb \in BOOLEAN :
           HandleApiError("p1", e, o, cb)
    \/ Resume("p1")

SpecCollab == InitRetry /\ [][NextCollab]_vars

\* the loggers tried, each as the set of levels at which its call raises: a
\* logger whose calls return, loggers that fail at one level, and the export
\* of func/logger, a function that has none of the methods error, warn, info
\* and debug, so that every logger[level](...) raises a TypeError
LogLevels == {"error", "warn", "info", "debug"}
LoggersTried == {{}, {"error"}, {"debug"}, {"info"}, {"warn"}, LogLevels}

NextLogRaises ==
    \/ \E e \in CollabErrorsTried, o \in CollabOptionsTried, cb \in BOOLEAN :
          \E raising \in LoggersTried : HandleApiErrorWith("p1", e, o, cb, raising)
    \/ Resume("p1")

SpecLogRaises == InitRetry /\ [][NextLogRaises]_vars

\* the error object behind an error given to handleApiError: a NetworkError,
\* an FCAError with the given code, or a plain Error, constructed at time t
OriginalObject(g, t) ==
    IF g.fca
    THEN IF g.code = "NETWORK_ERROR"
         THEN NewClassError("NetworkError", "m1", EmptyDetails, t)
         ELSE NewFCAError("m1", g.code, EmptyDetails, t)
    ELSE NewError("m1", g.code)
\* the error object the caller of handleApiError receives: the error itself,
\* new Error(`Retry attempt ${n}`), or a NetworkError whose details are
\* { originalError } or { originalError, retryAttempt }
GivenObject(g, t) ==
    IF "message" \notin DOMAIN g THEN OriginalObject(g, t)
    ELSE IF ~g.fca THEN NewError(g.message, undefined)
    ELSE NewClassError("NetworkError", g.message,
                       [tag |-> IF g.retryAttempt = 0 THEN "{originalError}"
                                ELSE "{originalError,retryAttempt}",
                        originalError |-> <<OriginalObject(g.originalError[1], t)>>,
                        retryAttempt |-> g.retryAttempt],
                       t)

\* the caller formats the error handleApiError has just handed to it:
\* createErrorResponse(error)
RespondCall(p) ==
    /\ hlast.op \in {"settle", "resume"} /\ hlast.proc = p /\ ~hlast.raised
    /\ plast' = [NoUtilityCall EXCEPT
                   !.op = "createErrorResponse", !.at = now,
                   !.err = GivenObject(hlast.given, now),
                   !.response = CreateErrorResponse(GivenObject(hlast.given, now), now)]
    /\ UNCHANGED <<cvars, retryCounts, calls, hlast, streak>>

NextRespond ==
    \/ \E e \in CollabErrorsTried, o \in CollabOptionsTried, cb \in BOOLEAN :
           HandleApiError("p1", e, o, cb)
    \/ Resume("p1")
    \/ RespondCall("p1")

SpecRespond == InitRetry /\ [][NextRespond]_vars

\* the interleaved callers under an event loop that fires every pending timer
SpecSharedFair == SpecShared /\ \A p \in Procs : WF_vars(Resume(p))

\* ---- error utilities: the state machine ------------------------------------
\* ErrorHandler.getSafeErrorMessage(e)
GetSafeErrorMessageCall(e) ==
    /\ plast' = [NoUtilityCall EXCEPT !.op = "getSafeErrorMessage", !.err = e, !.at = now,
                                      !.text = GetSafeErrorMessage(e)]
    /\ UNCHANGED <<cvars, retryCounts, calls, hlast, streak>>

\* createErrorResponse(e)
CreateErrorResponseCall(e) ==
    /\ plast' = [NoUtilityCall EXCEPT !.op = "createErrorResponse", !.err = e, !.at = now,
                                      !.response = CreateErrorResponse(e, now)]
    /\ UNCHANGED <<cvars, retryCounts, calls, hlast, streak>>

\* getErrorCode(errorType)
GetErrorCodeCall(errorType) ==
    /\ plast' = [NoUtilityCall EXCEPT !.op = "getErrorCode", !.arg = errorType, !.at = now,
                                      !.text = GetErrorCode(errorType)]
    /\ UNCHANGED <<cvars, retryCounts, calls, hlast, streak>>

\* new <class>(message, details), for a subclass of FCAError
ConstructCall(class, message, details) ==
    /\ plast' = [NoUtilityCall EXCEPT !.op = "new", !.at = now,
                                      !.err = NewClassError(class, message, details, now)]
    /\ UNCHANGED <<cvars, retryCounts, calls, hlast, streak>>

\* validateRequiredParams(params, required): it runs to its end in one step
\* and touches nothing but its arguments, which it only reads
ValidateRequiredParamsCall(params, required) ==
    /\ plast' = [NoUtilityCall EXCEPT
                   !.op = "validateRequiredParams", !.at = now,
                   !.params = params, !.required = required,
                   !.thrown = ValidateRequiredParams(params, required, now).thrown]
    /\ UNCHANGED <<cvars, retryCounts, calls, hlast, streak>>

NextUtility ==
    \/ \E c \in DOMAIN ClassCode, m \in MessagesTried, d \in DetailsTried :
          ConstructCall(c, m, d)
    \/ \E params \in ParamsTried, required \in RequiredTried :
          ValidateRequiredParamsCall(params, required)
    \/ \E e \in UtilityErrorsTried(now) : GetSafeErrorMessageCall(e)
    \/ \E e \in UtilityErrorsTried(now) : CreateErrorResponseCall(e)
    \/ \E errorType \in ErrorTypesTried : GetErrorCodeCall(errorType)
    \/ Tick

SpecUtility == InitRetry /\ [][NextUtility]_vars

\* ---- login and configuration: the state machine ----------------------------
\* login(loginData, options, callback)
LoginCall(loginData, opts, callback, autoUpdate, update) ==
    /\ plast' = [NoUtilityCall EXCEPT
                   !.op = "login", !.at = now, !.params = loginData,
                   !.options = opts, !.callback = callback,
                   !.result = <<Login(loginData, opts, callback, autoUpdate, update, now)>>]
    /\ UNCHANGED <<cvars, retryCounts, calls, hlast, streak>>

\* loadConfig(), with the files found and the environment of the process
LoadConfigCall(files, env) ==
    /\ plast' = [NoUtilityCall EXCEPT
                   !.op = "loadConfig", !.at = now,
                   !.result = <<[file |-> FirstLoaded(files), env |-> LoadFromEnv(env),
                                 config |-> LoadConfig(files, env)]>>]
    /\ UNCHANGED <<cvars, retryCounts, calls, hlast, streak>>

NextModule ==
    \/ \E files \in FilesTried, env \in EnvsTried : LoadConfigCall(files, env)
    \/ \E loginData \in LoginDataTried, opts \in ArgumentsTried, callback \in ArgumentsTried,
          autoUpdate \in BOOLEAN, update \in {"resolved", "rejected", "no promise"} :
          LoginCall(loginData, opts, callback, autoUpdate, update)
    \/ Tick

SpecModule == InitRetry /\ [][NextModule]_vars

\* ---- properties ------------------------------------------------------------
\* the stored keys, oldest first: the order in which set evicts them
EvictionOrder(m) == [i \in 1..Len(m) |-> m[i].key]
\* a key order restricted to the keys in S
Restrict(o, S) == SelectSeq(o, LAMBDA x : x \in S)
Positive(ttl) == ttl # NoArg /\ ttl[1] > 0

\* C1: with a configured capacity >= 1, whatever calls were made, the number
\* of stored entries never exceeds the capacity.
C1_SizeWithinCapacity == options.maxSize >= 1 => Cardinality(MapKeys(cache)) <= options.maxSize
\* a set of a new key on a full store has just evicted an entry
C1_Witness ==
    /\ options.maxSize >= 1 /\ last.op = "set" /\ ~last.had
    /\ last.evicted # undefined /\ Len(cache) = options.maxSize

\* C2 as claimed: get(key) on a stored key returns the value only when
\* now < expiresAt; at now >= expiresAt it returns absent and removes the entry
\* (stated for the entries with a positive expiresAt).
C2_Original ==
    [][(last'.op = "get" /\ MapHas(cache, last'.key) /\ timestamps[last'.key] > 0) =>
         IF now < timestamps[last'.key]
         THEN last'.ret = MapGet(cache, last'.key) /\ cache' = cache
         ELSE last'.ret = undefined /\ ~MapHas(cache', last'.key)]_vars
\* C2 amended: get(key) on a stored key returns the value when now <= expiresAt
\* (the expiry instant itself still reads as live) or when expiresAt is 0, and
\* leaves the store unchanged; only at now > expiresAt, expiresAt non-zero, does
\* it return absent and remove the entry from both Maps.
C2_GetLiveThroughExpiryInstant ==
    [][(last'.op = "get" /\ MapHas(cache, last'.key)) =>
         IF now <= timestamps[last'.key] \/ timestamps[last'.key] = 0
         THEN /\ last'.ret = MapGet(cache, last'.key)
              /\ cache' = cache /\ timestamps' = timestamps
         ELSE /\ last'.ret = undefined
              /\ ~MapHas(cache', last'.key)
              /\ last'.key \notin DOMAIN timestamps'
              /\ EvictionOrder(cache') = Restrict(EvictionOrder(cache), MapKeys(cache) \ {last'.key})]_vars
\* a get made exactly at the expiry instant has returned the value
C2_Witness ==
    /\ last.op = "get" /\ last.ret # undefined
    /\ MapHas(cache, last.key) /\ timestamps[last.key] = now

\* C3: a set of a key that is not stored, on a store holding capacity entries,
\* removes exactly one entry, the one inserted before every other stored entry;
\* get and has never reorder the stored entries, so the entry evicted next
\* stays the oldest-inserted one among those still stored.
C3_EvictsOldestInserted ==
    [][/\ (last'.op = "set" /\ ~MapHas(cache, last'.key) /\ Len(cache) = maxSize) =>
            \E e \in MapKeys(cache) :
               /\ \A x \in MapKeys(cache) \ {e} : <<e, x>> \in older
               /\ MapKeys(cache') = (MapKeys(cache) \ {e}) \cup {last'.key}
               /\ Len(cache') = Len(cache)
       /\ (last'.op \in {"get", "has"}) =>
            /\ EvictionOrder(cache') = Restrict(EvictionOrder(cache), MapKeys(cache'))
            /\ MapKeys(cache') \subseteq MapKeys(cache)
            /\ (Len(cache) > 0 /\ MapHas(cache', EvictionOrder(cache)[1])) =>
                   EvictionOrder(cache')[1] = EvictionOrder(cache)[1]]_vars
\* a set of a new key has evicted the oldest of two stored entries
C3_Witness ==
    /\ last.op = "set" /\ ~last.had /\ last.evicted # undefined
    /\ Len(cache) = 2 /\ maxSize = 2
    /\ ~MapHas(cache, last.evicted)

\* C4 as claimed: after set on a stored key the key is the most recently
\* inserted one, so every other stored key is evicted before it.
C4_Original ==
    [][(last'.op = "set" /\ MapHas(cache, last'.key)) =>
         EvictionOrder(cache')[Len(cache')] = last'.key]_vars
\* C4 amended: set on a stored key leaves the key at its place in the eviction
\* order (the keys inserted after it are still evicted after it); only when the
\* store is full and the key is its oldest entry is the key evicted and
\* re-inserted, and then it is the most recently inserted one.
C4_OverwriteKeepsPlace ==
    [][(last'.op = "set" /\ MapHas(cache, last'.key)) =>
         IF Len(cache) >= maxSize /\ EvictionOrder(cache)[1] = last'.key
         THEN EvictionOrder(cache') = Append(Tail(EvictionOrder(cache)), last'.key)
         ELSE /\ MapHas(cache', last'.key)
              /\ EvictionOrder(cache') = Restrict(EvictionOrder(cache), MapKeys(cache'))]_vars
\* a stored key was overwritten, nothing was evicted, and the key is still the
\* oldest entry, ahead of a key inserted after it
C4_Witness ==
    /\ last.op = "set" /\ last.had /\ last.evicted = undefined
    /\ Len(cache) >= 2 /\ EvictionOrder(cache)[1] = last.key

\* C5 as claimed: on a store holding capacity entries every set leaves
\* size() = capacity, and a set that overwrites a stored key removes no other key.
C5_Original ==
    [][(last'.op = "set" /\ options.maxSize >= 1 /\ Len(cache) = maxSize) =>
         /\ Len(cache') = maxSize
         /\ MapHas(cache, last'.key) => MapKeys(cache') = MapKeys(cache)]_vars

\* C6 as claimed: has(key) on a stored entry whose expiry has passed returns
\* false and removes the entry; on a live entry it returns true.
C6_Original ==
    [][(last'.op = "has" /\ MapHas(cache, last'.key)) =>
         /\ (timestamps[last'.key] > 0 /\ now > timestamps[last'.key]) =>
                (~last'.bool /\ ~MapHas(cache', last'.key))
         /\ now < timestamps[last'.key] => last'.bool]_vars

\* C7: a get that directly follows a set of the same key made with the TTL
\* omitted or positive, with no clock advance between them, returns the value
\* just set.
C7_GetAfterSet ==
    [][(/\ last.op = "set" /\ (last.ttl = NoArg \/ Positive(last.ttl))
        /\ last'.op = "get" /\ last'.key = last.key) =>
         (now' = now /\ last'.ret = last.value /\ last'.ret # undefined)]_vars
\* such a get has returned the new value of a key that was stored before
C7_Witness ==
    /\ last.op = "get" /\ last.afterSet
    /\ (last.setTtl = NoArg \/ Positive(last.setTtl))
    /\ last.ret = last.setValue /\ last.ret = "v2"

\* C8: from any store state and clock, set(k, v) and set(k, v, defaultTTL)
\* produce the same two Maps: same entries, same order, same expiry.
C8_OmittedTtlIsDefaultTtl ==
    \A k \in Keys : \A v \in ValuesFor(k) :
       SetState(cache, timestamps, maxSize, k, v, now, NoArg, defaultTTL)
         = SetState(cache, timestamps, maxSize, k, v, now, <<defaultTTL>>, defaultTTL)
\* a set without TTL has stored an entry expiring defaultTTL from now, with a
\* configured default
C8_Witness ==
    /\ last.op = "set" /\ last.ttl = NoArg /\ options.defaultTTL # 0
    /\ timestamps[last.key] = now + options.defaultTTL

\* C9: a clock advance never changes the two Maps; a key leaves the store only
\* in delete of that key, clear, the eviction of the oldest entry by a set on a
\* full store, or a get of that key after its expiry; size() and stats().size
\* count every stored entry, expired or not.
C9_NoBackgroundSweep ==
    [][/\ now' # now => (cache' = cache /\ timestamps' = timestamps)
       /\ \A k \in MapKeys(cache) \ MapKeys(cache') :
             \/ last'.op = "delete" /\ last'.key = k
             \/ last'.op = "clear"
             \/ last'.op = "set" /\ Len(cache) >= maxSize /\ k = EvictionOrder(cache)[1]
             \/ last'.op = "get" /\ last'.key = k /\ now > timestamps[k]
       /\ last'.op \in {"size", "stats"} => last'.num = Cardinality(MapKeys(cache))]_vars
\* size() has counted an entry whose expiry has passed
C9_Witness ==
    /\ last.op = "size" /\ last.num >= 1
    /\ \E k \in MapKeys(cache) : timestamps[k] > 0 /\ now > timestamps[k]

\* C10 as claimed: with capacity configured as 0, size() is 0 after every set
\* and a get of the key just set returns absent.
C10_Original ==
    options.maxSize = 0 =>
       /\ last.op = "set" => Len(cache) = 0
       /\ (last.op = "get" /\ last.afterSet) => last.ret = undefined

\* ---- properties of the error handler ----------------------------------------
\* this step is a whole handleApiError call of caller p, up to its suspension
\* or its end
Handled(p) ==
    /\ calls[p].pc = "idle"
    /\ hlast'.op \in {"suspend", "settle"}
    /\ hlast'.proc = p
    /\ UNCHANGED cvars
\* this step ends the retry delay of caller p
Woken(p) == calls[p].pc = "delay" /\ calls'[p].pc # "delay"

C13_Original ==
    (/\ hlast.op = "suspend"
     /\ HasOwnEntry(hlast.code)
     /\ hlast.opts = [DefaultOptions EXCEPT !.retry = TRUE])
    => /\ hlast.wait = RETRY_CONFIG[hlast.code].delay
       /\ hlast.attempt <= RETRY_CONFIG[hlast.code].maxRetries

\* C14 as claimed: when a wrapped function returns normally after a retry for
\* code c was signalled, the counter of c is 0.
C14_Original ==
    (hlast.op = "return" /\ hlast.code # undefined)
    => GetRetryCount(retryCounts, hlast.code) = 0

\* C15 as claimed: a failure whose code has no entry in RETRY_CONFIG gets no
\* retry and no delay and changes no counter.
C15_Original ==
    [][\A p \in Procs :
         (Handled(p) /\ ~HasOwnEntry(hlast'.code))
         => /\ hlast'.decision = "none"
            /\ calls'[p].pc = "idle" /\ hlast'.wait = 0
            /\ retryCounts' = retryCounts]_vars

\* C16 as claimed: shouldRetry holds exactly when RETRY_CONFIG has an entry
\* for the code and maxRetries > 0.
C16_Original ==
    hlast.op = "shouldRetry"
    => (Truthy(hlast.ret) <=> (HasOwnEntry(hlast.code) /\ hlast.maxRetries > 0))

\* the failures handled for the NETWORK_TIMEOUT code with retry enabled and
\* maxRetries 3, one after the other from a counter at 0: hlast is the n-th
InTimeoutRun(n) ==
    /\ hlast.op \in {"suspend", "settle"}
    /\ hlast.code = "ERR_NETWORK_01" /\ hlast.opts.retry /\ hlast.opts.maxRetries = 3
    /\ streak.code = hlast.code /\ streak.maxRetries = 3 /\ streak.n = n

C19_BudgetSharedPerCode ==
    [][\A p \in Procs :
         Handled(p)
         => /\ DOMAIN retryCounts' \subseteq CodesTried
            /\ hlast'.attempts = GetRetryCount(retryCounts, hlast'.code)
            /\ hlast'.decision = "retry"
               => GetRetryCount(retryCounts', hlast'.code) = hlast'.attempts + 1
            /\ hlast'.decision = "exhausted"
               => GetRetryCount(retryCounts', hlast'.code) = 0
            /\ \A c \in CodesTried \ {hlast'.code} :
                  GetRetryCount(retryCounts', c) = GetRetryCount(retryCounts, c)]_vars
\* a failure of p2 has been refused a retry because of retries granted to p1,
\* which is still in its delay with the same code, while another code has a
\* counter of its own
C19_Witness ==
    /\ hlast.proc = "p2" /\ hlast.decision = "exhausted"
    /\ calls["p1"].pc = "delay" /\ ErrorCode(calls["p1"].err) = hlast.code
    /\ \E c \in DOMAIN retryCounts : c # hlast.code /\ retryCounts[c] >= 1

\* C20: while a handleApiError call is suspended in its delay, the Cache
\* operations and the handleApiError calls of every caller that has none in
\* flight can be taken, and each of them runs to its end or to its own
\* suspension in one step that leaves the suspended call as it was.
C20_DelayDoesNotBlock ==
    /\ [](\A p \in Procs :
            calls[p].pc = "delay"
            => /\ ENABLED Set("k1", "v1", NoArg)
               /\ ENABLED Get("k1")
               /\ \A q \in Procs \ {p} :
                     calls[q].pc = "idle"
                     => \A e \in SharedErrorsTried, o \in SharedOptionsTried, cb \in BOOLEAN :
                           ENABLED HandleApiError(q, e, o, cb))
    /\ [][\A p \in Procs :
            (calls[p].pc = "delay" /\ ~Woken(p)) => calls'[p] = calls[p]]_vars
\* a failure of p2 has been handled to its end, and then the cache has been
\* written and read, all while p1 is in its delay
C20_Witness ==
    /\ calls["p1"].pc = "delay" /\ calls["p2"].pc = "idle"
    /\ hlast.proc = "p2" /\ hlast.op = "settle"
    /\ last.op = "get" /\ last.afterSet

\* ---- properties of the error utilities -------------------------------------
\* C27: the safe message of a SecurityError is one fixed sentence: two calls
\* in a row for SecurityErrors, whatever their messages and details, return
\* the same text, and the text is not the error's message.
C27_SecuritySafeMessageFixed ==
    [][(/\ plast'.op = "getSafeErrorMessage" /\ IsSecurityError(plast'.err))
       => /\ plast'.text # plast'.err.message
          /\ plast'.text \notin MessagesTried
          /\ (plast.op = "getSafeErrorMessage" /\ IsSecurityError(plast.err))
             => plast'.text = plast.text]_vars
\* the safe message of a SecurityError with message m2 and details has been
\* asked for
C27_Witness ==
    /\ plast.op = "getSafeErrorMessage" /\ IsSecurityError(plast.err)
    /\ plast.err.message = "m2" /\ plast.err.details.tag = "d1"
    /\ plast.text = SECURITY_SAFE_MESSAGE

\* C28 as claimed: for every error that is no SecurityError, the Unknown kind
\* included, the safe message is the error's message.
C28_Original ==
    (plast.op = "getSafeErrorMessage" /\ ~IsSecurityError(plast.err))
    => plast.text = plast.err.message
\* C28: for every FCAError that is no SecurityError the safe message is the
\* error's message unchanged; for an error that is no FCAError (the Unknown
\* kind) it is the fixed sentence "An unexpected error occurred. Please try
\* again later.", whatever the error's message.
C28_SafeMessageOfOtherKinds ==
    plast.op = "getSafeErrorMessage"
    => /\ (plast.err.class \in ErrorClasses \ {"SecurityError", "Error"})
          => plast.text = plast.err.message
       /\ plast.err.class = "Error"
          => plast.text = "An unexpected error occurred. Please try again later."
\* the safe message of a plain Error with message m1 has been asked for
C28_Witness ==
    /\ plast.op = "getSafeErrorMessage"
    /\ plast.err.class = "Error" /\ plast.err.message = "m1"
    /\ plast.text # "m1"

\* the codes the subclasses of FCAError carry
KindCodes == {"AUTH_ERROR", "NETWORK_ERROR", "VALIDATION_ERROR", "CONFIG_ERROR",
              "SECURITY_ERROR", "DATABASE_ERROR"}

\* C29: createErrorResponse on an FCAError returns a record of exactly the six
\* fields error, message, code, errorCode, details, timestamp: error is true,
\* message, code and details are the error's, timestamp is the one the error
\* got at construction, errorCode is getErrorCode of the error's code, which
\* is ERR_GENERAL_01 for each of the six codes of the subclasses.
C29_ErrorResponseOfFCAError ==
    (plast.op = "createErrorResponse" /\ IsFCAError(plast.err))
    => /\ DOMAIN plast.response
            = {"error", "message", "code", "errorCode", "details", "timestamp"}
       /\ plast.response.error = TRUE
       /\ plast.response.message = plast.err.message
       /\ plast.response.code = plast.err.code
       /\ plast.response.details = plast.err.details
       /\ plast.response.timestamp = plast.err.timestamp
       /\ plast.response.errorCode = GetErrorCode(plast.err.code)
       /\ plast.err.code \in KindCodes => plast.response.errorCode = "ERR_GENERAL_01"
\* a response has been made for a ValidationError constructed before the call
C29_Witness ==
    /\ plast.op = "createErrorResponse" /\ plast.err.class = "ValidationError"
    /\ plast.err.timestamp # <<>> /\ plast.err.timestamp[1] < plast.at
    /\ plast.response.errorCode = "ERR_GENERAL_01"
    /\ plast.response.timestamp = plast.err.timestamp

\* the catalog as the specification lists it
CatalogListed(name) ==
    CASE name = "AUTH_LOGIN_FAILED" -> "ERR_AUTH_01"
      [] name = "AUTH_CHECKPOINT" -> "ERR_AUTH_02"
      [] name = "AUTH_2FA_REQUIRED" -> "ERR_AUTH_03"
      [] name = "AUTH_SESSION_EXPIRED" -> "ERR_AUTH_04"
      [] name = "AUTH_CREDENTIALS_INVALID" -> "ERR_AUTH_05"
      [] name = "NETWORK_TIMEOUT" -> "ERR_NETWORK_01"
      [] name = "NETWORK_CONNECTION_FAILED" -> "ERR_NETWORK_02"
      [] name = "NETWORK_REQUEST_FAILED" -> "ERR_NETWORK_03"
      [] name = "NETWORK_PARSE_FAILED" -> "ERR_NETWORK_04"
      [] name = "NETWORK_RATE_LIMITED" -> "ERR_NETWORK_05"
      [] name = "VALIDATION_MISSING_PARAM" -> "ERR_VALIDATION_01"
      [] name = "VALIDATION_INVALID_FORMAT" -> "ERR_VALIDATION_02"
      [] name = "VALIDATION_OUT_OF_RANGE" -> "ERR_VALIDATION_03"
      [] name = "CONFIG_MISSING" -> "ERR_CONFIG_01"
      [] name = "CONFIG_INVALID" -> "ERR_CONFIG_02"
      [] name = "CONFIG_FILE_NOT_FOUND" -> "ERR_CONFIG_03"
      [] name = "SECURITY_ENCRYPTION_FAILED" -> "ERR_SECURITY_01"
      [] name = "SECURITY_DECRYPTION_FAILED" -> "ERR_SECURITY_02"
      [] name = "SECURITY_VALIDATION_FAILED" -> "ERR_SECURITY_03"
      [] name = "SECURITY_PERMISSION_DENIED" -> "ERR_SECURITY_04"
      [] name = "DATABASE_CONNECTION_FAILED" -> "ERR_DATABASE_01"
      [] name = "DATABASE_QUERY_FAILED" -> "ERR_DATABASE_02"
      [] name = "DATABASE_RECORD_NOT_FOUND" -> "ERR_DATABASE_03"
      [] name = "UNKNOWN_ERROR" -> "ERR_GENERAL_01"
      [] name = "NOT_IMPLEMENTED" -> "ERR_GENERAL_02"
      [] name = "OPERATION_CANCELLED" -> "ERR_GENERAL_03"
      [] OTHER -> "ERR_GENERAL_01"

\* C30 as claimed: getErrorCode maps each of the 26 catalog names to its
\* listed code and every other string to ERR_GENERAL_01.
C30_Original ==
    plast.op = "getErrorCode" => plast.text = CatalogListed(plast.arg)

\* the code the taxonomy gives each kind
KindCode(class) ==
    CASE class = "AuthenticationError" -> "AUTH_ERROR"
      [] class = "NetworkError" -> "NETWORK_ERROR"
      [] class = "ValidationError" -> "VALIDATION_ERROR"
      [] class = "ConfigurationError" -> "CONFIG_ERROR"
      [] class = "SecurityError" -> "SECURITY_ERROR"
      [] class = "DatabaseError" -> "DATABASE_ERROR"

\* C31: an error constructed for a kind carries the code of that kind,
\* whatever its message and details; and of two errors constructed one after
\* the other, the codes are equal exactly when the kinds are.
C31_KindCodeFixed ==
    /\ [](plast.op = "new" => plast.err.code = KindCode(plast.err.class))
    /\ [][(plast.op = "new" /\ plast'.op = "new")
           => (plast.err.class = plast'.err.class <=> plast.err.code = plast'.err.code)]_vars
\* a DatabaseError with details has been constructed
C31_Witness ==
    /\ plast.op = "new" /\ plast.err.class = "DatabaseError"
    /\ plast.err.code = "DATABASE_ERROR" /\ plast.err.details.tag = "d1"
    /\ plast.err.message = "m2"

\* C32 as claimed: the record createErrorResponse returns carries no stack
\* trace, as a field or inside its details, whatever the error, the errors
\* handleApiError hands over included.
C32_Original ==
    plast.op = "createErrorResponse"
    => /\ "stack" \notin DOMAIN plast.response
       /\ ResponseStacks(plast.response) = {}

\* C33: a call of validateRequiredParams whose params is null, undefined, a
\* string, a number or a boolean throws, in the step of the call, a
\* ValidationError (code VALIDATION_ERROR), whatever the list of required
\* names is, the empty list included.
C33_NonObjectRejected ==
    (plast.op = "validateRequiredParams" /\ plast.params.type # "object")
    => /\ Len(plast.thrown) = 1
       /\ plast.thrown[1].class = "ValidationError"
       /\ plast.thrown[1].code = "VALIDATION_ERROR"
       /\ plast.thrown[1].timestamp = <<plast.at>>
\* null has been rejected with an empty list of required names
C33_Witness ==
    /\ plast.op = "validateRequiredParams" /\ plast.params.type = "null"
    /\ plast.required = <<>>
    /\ Len(plast.thrown) = 1 /\ plast.thrown[1].class = "ValidationError"

\* the positions of `required` whose name is no property of the object
\* params, or a property whose value is undefined or null
AbsentOrNull(params, required) ==
    {i \in DOMAIN required :
        \/ required[i] \notin DOMAIN params.own
        \/ params.own[required[i]] \in {undefined, null}}
\* C34 as claimed: for an object params the call throws a ValidationError
\* exactly when some required name is absent or null in params, the error
\* names the first such name of the list, and the call otherwise returns.
C34_Original ==
    (plast.op = "validateRequiredParams" /\ plast.params.type = "object")
    => LET missing == AbsentOrNull(plast.params, plast.required) IN
       /\ (plast.thrown # <<>>) <=> (missing # {})
       /\ plast.thrown # <<>>
          => /\ plast.thrown[1].class = "ValidationError"
             /\ \E i \in missing :
                   /\ \A j \in missing : i <= j
                   /\ plast.thrown[1].message = MissingMessage(plast.required[i])

\* C35 as claimed: login with loginData that is absent or no object ends with
\* a ValidationError, handed to the callback when the caller passed a function
\* as the callback or as the options argument, thrown otherwise, and makes no
\* update check and no loginHelper call.
C35_Original ==
    (plast.op = "login" /\ (plast.params.falsy \/ plast.params.type # "object"))
    => LET r == plast.result[1] IN
       /\ Len(r.error) = 1 /\ r.error[1].class = "ValidationError"
       /\ r.via = IF IsFunction(plast.callback) \/ IsFunction(plast.options)
                  THEN "callback" ELSE "throw"
       /\ ~r.updateCheck /\ ~r.loginHelper

\* C36 as claimed: in the configuration loadConfig returns, every setting
\* the environment gives has the environment's value, every other setting
\* the file gives has the file's value, and every remaining setting has its
\* default.
C36_Original ==
    plast.op = "loadConfig"
    => LET r == plast.result[1] IN
       \A path \in Settings :
          /\ HasSetting(r.config, path)
          /\ SettingOf(r.config, path)
               = IF HasSetting(r.env, path) THEN SettingOf(r.env, path)
                 ELSE IF HasSetting(r.file, path) THEN SettingOf(r.file, path)
                 ELSE SettingOf(defaultConfig, path)

\* ---- properties of the handler and its collaborators -----------------------
\* C21: a call that has begun its retry delay stays suspended, whatever the
\* other caller and the cache do, until its own timer fires, and the timer
\* does fire: the retry signal of that call is eventually handed over, to the
\* callback or by a throw.
C21_RetrySignalDelivered ==
    /\ [][\A p \in Procs :
            calls[p].pc = "delay"
            => \/ calls'[p] = calls[p]
               \/ /\ hlast'.op = "resume" /\ hlast'.proc = p
                  /\ hlast'.err = calls[p].err
                  /\ hlast'.attempt = calls[p].retryCount + 1
                  /\ hlast'.given # NoError]_vars
    /\ \A p \in Procs :
          (calls[p].pc = "delay")
             ~> (/\ hlast.op = "resume" /\ hlast.proc = p
                 /\ hlast.delivered \in {"retryMarker", "retryError"}
                 /\ hlast.given # NoError)
\* the retry signal of p1 has been handed over after p2 was handled and while
\* p2 is in a delay of its own
C21_Witness ==
    /\ hlast.op = "resume" /\ hlast.proc = "p1" /\ hlast.given # NoError
    /\ calls["p2"].pc = "delay"
    /\ last.op = "get"

\* C22 as claimed: whenever the error handled is no FCAError, what the caller
\* receives, thrown or through the callback, is a NetworkError whose
\* details.originalError is that error.
C22_Original ==
    (hlast.op = "settle" /\ ~hlast.err.fca)
    => /\ hlast.given.code = "NETWORK_ERROR" /\ hlast.given.fca
       /\ hlast.given.originalError = <<hlast.err>>

C24_Original ==
    (hlast.op \in {"suspend", "settle"} /\ hlast.raised)
    => /\ hlast.delivered \in {"original", "wrapped"}
       /\ hlast.given # LogFailure

\* C25: every handleApiError call first calls the logger at the level of the
\* call, before any other step; a retry granted calls logger.info and a budget
\* exceeded calls logger.warn as the last log call of the handler, after the
\* first one; and the hand-over to the caller, or the await of the delay that
\* precedes it, is the last step.
C25_LoggedBeforeDelivery ==
    hlast.op \in {"suspend", "settle"}
    => /\ Len(hlast.logs) >= 1
       /\ hlast.logs[1] = hlast.opts.logLevel
       /\ hlast.trace[1] = "log"
       /\ hlast.decision = "retry"
          => /\ Len(hlast.logs) >= 2
             /\ hlast.logs[Len(hlast.logs)] = "info"
       /\ hlast.decision = "exhausted"
          => /\ Len(hlast.logs) >= 2
             /\ hlast.logs[Len(hlast.logs)] = "warn"
       /\ \A i \in DOMAIN hlast.trace :
             hlast.trace[i] \in {"await", "callback", "throw"} <=> i = Len(hlast.trace)
       /\ Cardinality({i \in DOMAIN hlast.trace : hlast.trace[i] = "log"}) = Len(hlast.logs)
\* a budget exceeded has been logged after the error and the report, and then
\* the error was handed to the callback
C25_Witness ==
    /\ hlast.op = "settle" /\ hlast.decision = "exhausted" /\ ~hlast.raised
    /\ hlast.logs = <<"error", "debug", "warn">>
    /\ hlast.trace = <<"log", "log", "log", "reset", "callback">>

C37_CounterWithinBudget ==
    /\ [](\A c \in DOMAIN retryCounts, o \in SharedOptionsTried :
            retryCounts[c] >= 0 /\ retryCounts[c] <= MergeOptions(o).maxRetries)
    /\ [][\A p \in Procs :
            (Handled(p) /\ hlast'.decision = "retry")
            => /\ calls'[p].retryCount = GetRetryCount(retryCounts, hlast'.code)
               /\ GetRetryCount(retryCounts', hlast'.code) = calls'[p].retryCount + 1]_vars
\* the counter of a code is at maxRetries while both callers are in the delay
\* of a retry for that code
C37_Witness ==
    /\ calls["p1"].pc = "delay" /\ calls["p2"].pc = "delay"
    /\ ErrorCode(calls["p1"].err) = ErrorCode(calls["p2"].err)
    /\ GetRetryCount(retryCounts, ErrorCode(calls["p1"].err)) = DefaultOptions.maxRetries
    /\ calls["p1"].retryCount + 1 = calls["p2"].retryCount

\* the number of callback invocations among the steps of an event
CallbacksIn(trace) == Cardinality({i \in DOMAIN trace : trace[i] = "callback"})
C40_ZeroTtlIsOmittedTtl ==
    /\ [](\A k \in Keys : \A v \in ValuesFor(k) :
            SetState(cache, timestamps, maxSize, k, v, now, <<0>>, defaultTTL)
              = SetState(cache, timestamps, maxSize, k, v, now, NoArg, defaultTTL))
    /\ [][/\ (last'.op = "set" /\ last'.ttl = <<0>>)
              => timestamps'[last'.key] = now + defaultTTL
          /\ (last.op = "set" /\ last.ttl = <<0>> /\ last'.op = "get" /\ last'.key = last.key)
              => (now' = now /\ last'.ret = last.value /\ last'.ret # undefined)
          /\ (last'.op = "get" /\ MapHas(cache, last'.key)
                /\ now <= timestamps[last'.key])
              => last'.ret = MapGet(cache, last'.key)]_vars
\* a get right after a set with ttl 0 has returned the value, and the entry
\* expires a configured defaultTTL from now
C40_Witness ==
    /\ last.op = "get" /\ last.afterSet /\ last.setTtl = <<0>>
    /\ last.ret = last.setValue /\ last.ret # undefined
    /\ options.defaultTTL # 0
    /\ timestamps[last.key] = now + options.defaultTTL
====
